---- MODULE Spec2Model ----
(***************************************************************************)
(* Batch ingestion and grouping ledger of the DkmFiscbestdocProcessor      *)
(* function: services/state_manager.py and the handler main() of           *)
(* __init__.py.  The ledger is one JSON document in blob storage           *)
(* (Bestdoc_state.json); every operation reads the whole document,         *)
(* changes it in memory and writes the whole document back.                *)
(*                                                                         *)
(* Strings are sequences of one-character strings, so that slicing,        *)
(* replace() and upper() are computed as the code computes them.           *)
(* Timestamps are values of a logical clock that ticks at every            *)
(* datetime.utcnow() read by a mutation; 0 stands for None.                *)
(* state["metadata"] and state["daily_runs"] are not modelled: no          *)
(* operation modelled here reads them.                                     *)
(***************************************************************************)
EXTENDS Integers, Sequences, FiniteSets, TLC

VARIABLES
    store,                 \* the blob Bestdoc_state.json
    pc,                    \* position of each invocation of main()
    incoming_data,         \* main: body["Table1"]
    unprocessed_data,      \* main: result of filter_already_processed
    state,                 \* the dict read by get_state() in a mutation
    pending_groups,        \* main: result of get_unprocessed_pending_groups
    generated_files,       \* main: generated_files
    processed_groups_dict, \* main: processed_groups_dict
    saved,                 \* number of save_state() uploads of the invocation
    start_state,           \* history: the blob when the invocation started
    docs,                  \* history: every document generated so far
    clock,                 \* logical utcnow()
    received,              \* number of Table1 rows received so far
    key_calls,             \* history: the calls of generate_client_month_key
    processor,             \* which function app's transformer and table builder run
    group_data,            \* the records of one group, as main() passes them on
    bestemmings_data,      \* result of transform_client_group
    table_data,            \* draw_table: the planned rows (without the header row)
    style,                 \* draw_table: rows with a LINEABOVE rule on the record columns
    plan_pc,               \* position in transform_client_group / draw_table
    table,                 \* draw_table: the working table of the pagination loop
    y,                     \* draw_table: vertical offset on the current page
    loop_count,            \* draw_table: loop_count
    canvas,                \* the pages of the canvas and what was drawn on them
    draw_pc,               \* position in the pagination loop
    wrap_call,             \* the call of a text wrapper: caller, text, max_width, font
    lines,                 \* the lines the wrapper returned
    row_height,            \* draw_professional_table: row_height of the item
    wrap_pc,               \* position of the wrapper call
    debet_blob,            \* the blob fiscdebet_state.json (empty: no blob yet)
    processed_ever,        \* history: the ids passed as processed to update_state
    processed_below_max,   \* history: those that were not above the call's new_max_id
    latest_processed,      \* history: the ids passed as processed in the latest call
    update_calls           \* history: number of update_state calls

\* The handler and the ledger.
ledger_vars == <<store, pc, incoming_data, unprocessed_data, state,
                 pending_groups, generated_files, processed_groups_dict, saved,
                 start_state, docs, clock, received>>

\* The functions that are exercised on their own.
key_vars == <<key_calls>>

plan_vars == <<processor, group_data, bestemmings_data, table_data, style, plan_pc>>

draw_vars == <<table, y, loop_count, canvas, draw_pc>>

\* A text wrapper called on one text.
wrap_vars == <<wrap_call, lines, row_height, wrap_pc>>

\* update_state of DkmFiscdepetProcessor on its own blob.
debet_vars == <<debet_blob, processed_ever, processed_below_max,
                latest_processed, update_calls>>

pure_vars == <<key_vars, plan_vars, draw_vars, wrap_vars, debet_vars>>

vars == <<ledger_vars, pure_vars>>

-----------------------------------------------------------------------------
(* Bounds *)

MaxId == 2          \* record ids are 1..MaxId
MaxRows == 3        \* Table1 rows received in one behaviour, over all requests
MaxRaceRows == 2    \* the same, when two invocations interleave

-----------------------------------------------------------------------------
(* Input universe *)

Procs == {1, 2}

KlantAb == <<"A", "b">>

KlantNames == { KlantAb, <<"a", " ", "B">> }

DatumNov == <<"2", "0", "2", "5", "1", "1", "0", "3">>

Datums == { DatumNov, <<"2", "0", "2", "5", "1", "2", "1", "0">> }

Languages == { <<"e", "n">> }

ClientNaam == <<"A", "b", " ", "N", "V">>

LandCode == <<"B", "E">>

\* One row of Table1 as the Logic App posts it.
Row(i, k, d, l) ==
    [INTERNFACTUURNUMMER |-> i, KLANT |-> k, DATUM |-> d,
     CLIENT_NAAM |-> ClientNaam, CLIENT_LANDCODE |-> LandCode,
     CLIENT_LANGUAGE |-> l, PROCESSFACTUURNUMMER |-> i]

\* A JSON null where the row should carry a number (the numbers here are
\* positive).
NullNumber == -1

\* The same row with no PROCESSFACTUURNUMMER.
MalformedRow(i, k, d, l) ==
    [Row(i, k, d, l) EXCEPT !.PROCESSFACTUURNUMMER = NullNumber]

\* The rows a request can carry: every id in either month under the first
\* spelling of the client, and id 1 in November under the other spelling too.
Payloads ==
    { Row(i, KlantAb, d, l) : i \in 1..MaxId, d \in Datums, l \in Languages }
    \cup { Row(1, k, DatumNov, l) : k \in KlantNames, l \in Languages }

RECURSIVE SeqsUpTo(_, _)
SeqsUpTo(S, n) ==
    IF n = 0 THEN { <<>> }
    ELSE LET shorter == SeqsUpTo(S, n - 1)
         IN shorter \cup { Append(s, x) : s \in shorter, x \in S }

\* The rows of November under the first spelling of the client.
NovemberRows ==
    { Row(i, KlantAb, DatumNov, l) : i \in 1..MaxId, l \in Languages }

\* The rows of November, each also without its PROCESSFACTUURNUMMER.
MalformedPayloads ==
    NovemberRows
    \cup { MalformedRow(i, KlantAb, DatumNov, l) : i \in 1..MaxId, l \in Languages }

\* The bodies a request can carry when n of these rows may still be received.
Batches(payloads, n) == SeqsUpTo(payloads, n)

-----------------------------------------------------------------------------
(* Python string primitives *)

Digits == {"0", "1", "2", "3", "4", "5", "6", "7", "8", "9"}

UpperChar(c) ==
    CASE c = "a" -> "A"
      [] c = "b" -> "B"
      [] c = "c" -> "C"
      [] c = "e" -> "E"
      [] c = "n" -> "N"
      [] c = "l" -> "L"
      [] OTHER -> c

upper(s) == [i \in 1..Len(s) |-> UpperChar(s[i])]

isdigit(s) == Len(s) > 0 /\ \A i \in 1..Len(s) : s[i] \in Digits

Strip(c) == c \notin {" ", "-", "'"}

\* klant.replace(" ", "").replace("-", "").replace("'", "").upper()
clean_klant(klant) == upper(SelectSeq(klant, Strip))

\* datum[:n]
Prefix(s, n) == IF Len(s) >= n THEN SubSeq(s, 1, n) ELSE s

generate_client_month_key(klant, datum) ==
    LET year_month == IF Len(datum) = 8 /\ isdigit(datum)
                      THEN Prefix(datum, 6)
                      ELSE IF Len(datum) >= 6 THEN Prefix(datum, 6) ELSE datum
    IN clean_klant(klant) \o <<"_">> \o year_month

-----------------------------------------------------------------------------
(* The ledger document *)

NoTime == 0

NoFile == [lang |-> <<>>, klant |-> <<>>, id |-> -1]

\* The dict get_state() returns when the download or the parse fails.
EmptyState ==
    [records |-> <<>>,
     pending_by_client_month |-> <<>>,
     statistics |-> [total_records |-> 0, pending_bestdocs |-> 0,
                     generated_bestdocs |-> 0, last_5pm_run |-> NoTime,
                     last_5pm_processed_count |-> 0]]

\* get_state(): the blob when the read succeeds, the empty ledger otherwise.
get_state(ok) == IF ok THEN store ELSE EmptyState

Range(s) == { s[i] : i \in 1..Len(s) }

RecordIds(records) == { records[i].internfactuurnummer : i \in 1..Len(records) }

\* Python truthiness of record.get("INTERNFACTUURNUMMER")
Truthy(intern_id) == intern_id # 0

\* An insertion-ordered dict is a sequence of [key, objs] entries.
HasKey(d, k) == \E i \in 1..Len(d) : d[i].key = k

Lookup(d, k) == d[CHOOSE i \in 1..Len(d) : d[i].key = k].objs

AppendToKey(d, k, obj) ==
    [i \in 1..Len(d) |->
        IF d[i].key = k THEN [d[i] EXCEPT !.objs = Append(@, obj)] ELSE d[i]]

-----------------------------------------------------------------------------
(* services/state_manager.py *)

NewRecord(record, now_iso) ==
    [internfactuurnummer |-> record.INTERNFACTUURNUMMER,
     klant |-> record.KLANT,
     datum |-> record.DATUM,
     added_at |-> now_iso,
     bestdoc |-> FALSE,
     bestdoc_generated_at |-> NoTime,
     bestdoc_filename |-> NoFile]

PendingObject(record) ==
    [id |-> record.INTERNFACTUURNUMMER,
     INTERNFACTUURNUMMER |-> record.INTERNFACTUURNUMMER,
     DATUM |-> record.DATUM,
     KLANT |-> record.KLANT,
     CLIENT_NAAM |-> record.CLIENT_NAAM,
     CLIENT_LANDCODE |-> record.CLIENT_LANDCODE,
     CLIENT_LANGUAGE |-> record.CLIENT_LANGUAGE,
     PROCESSFACTUURNUMMER |-> record.PROCESSFACTUURNUMMER]

ObjIds(objs) == { objs[j].id : j \in 1..Len(objs) }

\* The body of the for loop of add_records_to_state for one incoming record.
\* acc.new_records and acc.pending are the lists the loop has built so far;
\* existing_ids is computed once, before the loop.
AddOne(acc, record, existing_ids, now_iso) ==
    LET intern_id == record.INTERNFACTUURNUMMER
        client_month_key == generate_client_month_key(record.KLANT, record.DATUM)
        withKey == IF HasKey(acc.pending, client_month_key)
                   THEN acc.pending
                   ELSE Append(acc.pending, [key |-> client_month_key, objs |-> <<>>])
        existing_ids_in_group == ObjIds(Lookup(withKey, client_month_key))
    IN IF Truthy(intern_id) /\ intern_id \notin existing_ids
       THEN [new_records |-> Append(acc.new_records, NewRecord(record, now_iso)),
             pending |-> IF intern_id \notin existing_ids_in_group
                         THEN AppendToKey(withKey, client_month_key, PendingObject(record))
                         ELSE withKey]
       ELSE acc

RECURSIVE AddLoop(_, _, _, _)
AddLoop(acc, incoming, existing_ids, now_iso) ==
    IF incoming = <<>> THEN acc
    ELSE AddLoop(AddOne(acc, Head(incoming), existing_ids, now_iso),
                 Tail(incoming), existing_ids, now_iso)

CountPending(records) ==
    Cardinality({ i \in 1..Len(records) : ~records[i].bestdoc })

\* Variant of add_records_to_state: the existing-id test is dropped, so every
\* incoming record with an id is appended again.
add_records_to_state_no_dedup(st, incoming, now_iso) ==
    LET acc == AddLoop([new_records |-> <<>>, pending |-> st.pending_by_client_month],
                       incoming, {}, now_iso)
        records == st.records \o acc.new_records
    IN IF incoming = <<>> \/ acc.new_records = <<>>
       THEN [save |-> FALSE, state |-> st]
       ELSE [save |-> TRUE,
             state |-> [records |-> records,
                        pending_by_client_month |-> acc.pending,
                        statistics |->
                            [st.statistics EXCEPT
                                !.total_records = Len(records),
                                !.pending_bestdocs = CountPending(records)]]]

\* add_records_to_state on the dict st that get_state() returned: the dict it
\* passes to save_state, and whether it calls save_state at all.
add_records_to_state(st, incoming, now_iso) ==
    LET existing_ids == RecordIds(st.records)
        acc == AddLoop([new_records |-> <<>>, pending |-> st.pending_by_client_month],
                       incoming, existing_ids, now_iso)
        records == st.records \o acc.new_records
    IN IF incoming = <<>> \/ acc.new_records = <<>>
       THEN [save |-> FALSE, state |-> st]
       ELSE [save |-> TRUE,
             state |-> [records |-> records,
                        pending_by_client_month |-> acc.pending,
                        statistics |->
                            [st.statistics EXCEPT
                                !.total_records = Len(records),
                                !.pending_bestdocs = CountPending(records)]]]

\* record_status = {r["internfactuurnummer"]: r.get("bestdoc", False)}: the
\* last record with the id decides; record_status.get(obj_id, False).
record_status(records, obj_id) ==
    LET hits == { i \in 1..Len(records) : records[i].internfactuurnummer = obj_id }
    IN IF hits = {} THEN FALSE
       ELSE records[CHOOSE i \in hits : \A j \in hits : j <= i].bestdoc

\* Variant of get_unprocessed_pending_groups: a group with an unprocessed
\* member is returned with its whole member list.
get_unprocessed_pending_groups_whole(st) ==
    LET Unprocessed(obj) == ~record_status(st.records, obj.id)
        HasOpen(g) == SelectSeq(g.objs, Unprocessed) # <<>>
    IN SelectSeq(st.pending_by_client_month, HasOpen)

\* Variant of get_unprocessed_pending_groups: a group that already has a
\* processed member counts as generated and is left out.
get_unprocessed_pending_groups_closed(st) ==
    LET Unprocessed(obj) == ~record_status(st.records, obj.id)
        Untouched(g) == g.objs # <<>> /\ SelectSeq(g.objs, Unprocessed) = g.objs
    IN SelectSeq(st.pending_by_client_month, Untouched)

get_unprocessed_pending_groups(st) ==
    LET Unprocessed(obj) == ~record_status(st.records, obj.id)
        filtered == [i \in 1..Len(st.pending_by_client_month) |->
                        [key |-> st.pending_by_client_month[i].key,
                         objs |-> SelectSeq(st.pending_by_client_month[i].objs,
                                            Unprocessed)]]
        NonEmpty(g) == g.objs # <<>>
    IN SelectSeq(filtered, NonEmpty)

RECURSIVE Extend(_)
\* all_processed_ids: the id lists of processed_groups, concatenated
Extend(groups) ==
    IF groups = <<>> THEN <<>> ELSE Head(groups).ids \o Extend(Tail(groups))

\* The filename loop of update_after_processing: the first generated file
\* whose metadata lists the id, the record's old filename when there is none.
FindFilename(files, id, old) ==
    LET hits == { i \in 1..Len(files) : id \in Range(files[i].internfactuurnummer) }
    IN IF hits = {} THEN old
       ELSE files[CHOOSE i \in hits : \A j \in hits : i <= j].filename

\* Variant of update_after_processing: every marked record gets the filename
\* of the first generated file.
update_after_processing_first_file(st, processed_groups, files, now_iso) ==
    LET all_processed_ids == Extend(processed_groups)
        records ==
            [i \in 1..Len(st.records) |->
                IF st.records[i].internfactuurnummer \in Range(all_processed_ids)
                THEN [st.records[i] EXCEPT
                        !.bestdoc = TRUE,
                        !.bestdoc_generated_at = now_iso,
                        !.bestdoc_filename = files[1].filename]
                ELSE st.records[i]]
    IN [records |-> records,
        pending_by_client_month |-> st.pending_by_client_month,
        statistics |->
            [st.statistics EXCEPT
                !.generated_bestdocs = @ + Len(all_processed_ids),
                !.pending_bestdocs = CountPending(records),
                !.last_5pm_run = now_iso,
                !.last_5pm_processed_count = Len(all_processed_ids)]]

\* Variant of update_after_processing: the processed ids are taken out of
\* the member lists, as a work queue would do.
update_after_processing_dequeue(st, processed_groups, files, now_iso) ==
    LET all_processed_ids == Extend(processed_groups)
        Open(obj) == obj.id \notin Range(all_processed_ids)
        records ==
            [i \in 1..Len(st.records) |->
                IF st.records[i].internfactuurnummer \in Range(all_processed_ids)
                THEN [st.records[i] EXCEPT
                        !.bestdoc = TRUE,
                        !.bestdoc_generated_at = now_iso,
                        !.bestdoc_filename =
                            FindFilename(files, st.records[i].internfactuurnummer, @)]
                ELSE st.records[i]]
    IN [records |-> records,
        pending_by_client_month |->
            [i \in 1..Len(st.pending_by_client_month) |->
                [st.pending_by_client_month[i] EXCEPT !.objs = SelectSeq(@, Open)]],
        statistics |->
            [st.statistics EXCEPT
                !.generated_bestdocs = @ + Len(all_processed_ids),
                !.pending_bestdocs = CountPending(records),
                !.last_5pm_run = now_iso,
                !.last_5pm_processed_count = Len(all_processed_ids)]]

update_after_processing(st, processed_groups, files, now_iso) ==
    LET all_processed_ids == Extend(processed_groups)
        records ==
            [i \in 1..Len(st.records) |->
                IF st.records[i].internfactuurnummer \in Range(all_processed_ids)
                THEN [st.records[i] EXCEPT
                        !.bestdoc = TRUE,
                        !.bestdoc_generated_at = now_iso,
                        !.bestdoc_filename =
                            FindFilename(files, st.records[i].internfactuurnummer, @)]
                ELSE st.records[i]]
    IN [records |-> records,
        pending_by_client_month |-> st.pending_by_client_month,
        statistics |->
            [st.statistics EXCEPT
                !.generated_bestdocs = @ + Len(all_processed_ids),
                !.pending_bestdocs = CountPending(records),
                !.last_5pm_run = now_iso,
                !.last_5pm_processed_count = Len(all_processed_ids)]]

\* Variant of filter_already_processed: every id the ledger holds is skipped,
\* processed or not.
filter_already_seen(st, incoming) ==
    LET Keep(record) == record.INTERNFACTUURNUMMER \notin RecordIds(st.records)
    IN SelectSeq(incoming, Keep)

filter_already_processed(st, incoming) ==
    LET processed_ids == { st.records[i].internfactuurnummer :
                             i \in { j \in 1..Len(st.records) : st.records[j].bestdoc } }
        Keep(record) == record.INTERNFACTUURNUMMER \notin processed_ids
    IN SelectSeq(incoming, Keep)

-----------------------------------------------------------------------------
(* services/data_transformer.py and the PDF step of main() *)

validate_group_consistency(records) ==
    /\ Len(records) > 0
    /\ \A i \in 2..Len(records) :
          /\ records[i].CLIENT_NAAM = records[1].CLIENT_NAAM
          /\ records[i].CLIENT_LANDCODE = records[1].CLIENT_LANDCODE
          /\ records[i].CLIENT_LANGUAGE = records[1].CLIENT_LANGUAGE
          /\ records[i].KLANT = records[1].KLANT

\* BS-{LANG}{LANG}-{KLANT}.pdf for a merged document (id 0),
\* BS-{LANG}{LANG}-{KLANT}-{ID}.pdf for a single record.
Filename(group_objects) ==
    [lang |-> upper(group_objects[1].CLIENT_LANGUAGE),
     klant |-> clean_klant(group_objects[1].KLANT),
     id |-> IF Len(group_objects) > 1 THEN 0
            ELSE group_objects[1].INTERNFACTUURNUMMER]

ObjIdList(group_objects) ==
    [j \in 1..Len(group_objects) |-> group_objects[j].INTERNFACTUURNUMMER]

FileInfo(g) ==
    [client_month_key |-> g.key,
     filename |-> Filename(g.objs),
     internfactuurnummer |-> ObjIdList(g.objs)]

\* int(record.get('PROCESSFACTUURNUMMER', 0)) raises TypeError on None, and
\* transform_client_group logs and raises again: no record of the group is
\* transformed.
transform_client_group_raises(records) ==
    \/ records = <<>>
    \/ \E i \in 1..Len(records) : records[i].PROCESSFACTUURNUMMER = NullNumber

\* The consistent groups of pending whose transformation raises.
Raising(pending) ==
    { i \in 1..Len(pending) :
        /\ validate_group_consistency(pending[i].objs)
        /\ transform_client_group_raises(pending[i].objs) }

\* The groups of pending for which STEP 4 appends a file: those that pass
\* validate_group_consistency and whose transform and PDF generation do not
\* raise (raising is the indices in failing).
Generated(pending, failing) ==
    LET idx == [i \in 1..Len(pending) |-> i]
        Ok(i) == validate_group_consistency(pending[i].objs) /\ i \notin failing
        okIdx == SelectSeq(idx, Ok)
    IN [j \in 1..Len(okIdx) |-> pending[okIdx[j]]]

-----------------------------------------------------------------------------
(* main(): one invocation p of the handler, one action per store access *)

\* No function is being exercised on its own.
KeyIdle == key_calls = <<>>

NoData == [records |-> <<>>, line_items |-> <<>>]

PlanIdle ==
    /\ processor = "none"
    /\ group_data = <<>>
    /\ bestemmings_data = NoData
    /\ table_data = <<>>
    /\ style = {}
    /\ plan_pc = "idle"

DrawIdle ==
    /\ table = <<>>
    /\ y = 0
    /\ loop_count = 0
    /\ canvas = <<>>
    /\ draw_pc = "idle"

NoCall == [caller |-> "none", text |-> <<>>, max_width |-> 0, font |-> 0]

WrapIdle ==
    /\ wrap_call = NoCall
    /\ lines = <<>>
    /\ row_height = 0
    /\ wrap_pc = "idle"

DebetIdle ==
    /\ debet_blob = <<>>
    /\ processed_ever = {}
    /\ processed_below_max = {}
    /\ latest_processed = {}
    /\ update_calls = 0

PureIdle == KeyIdle /\ PlanIdle /\ DrawIdle /\ WrapIdle /\ DebetIdle

LedgerInit ==
    /\ store = EmptyState
    /\ pc = [p \in Procs |-> "idle"]
    /\ incoming_data = [p \in Procs |-> <<>>]
    /\ unprocessed_data = [p \in Procs |-> <<>>]
    /\ state = [p \in Procs |-> EmptyState]
    /\ pending_groups = [p \in Procs |-> <<>>]
    /\ generated_files = [p \in Procs |-> <<>>]
    /\ processed_groups_dict = [p \in Procs |-> <<>>]
    /\ saved = [p \in Procs |-> 0]
    /\ start_state = [p \in Procs |-> EmptyState]
    /\ docs = <<>>
    /\ clock = 1
    /\ received = 0

Init == LedgerInit /\ PureIdle

\* main() returns: the locals of the invocation are gone.
Return(p) ==
    /\ pc' = [pc EXCEPT ![p] = "idle"]
    /\ incoming_data' = [incoming_data EXCEPT ![p] = <<>>]
    /\ unprocessed_data' = [unprocessed_data EXCEPT ![p] = <<>>]
    /\ state' = [state EXCEPT ![p] = EmptyState]
    /\ pending_groups' = [pending_groups EXCEPT ![p] = <<>>]
    /\ generated_files' = [generated_files EXCEPT ![p] = <<>>]
    /\ processed_groups_dict' = [processed_groups_dict EXCEPT ![p] = <<>>]
    /\ saved' = [saved EXCEPT ![p] = 0]
    /\ start_state' = [start_state EXCEPT ![p] = EmptyState]

\* The request arrives; an empty Table1 is answered at once.
Receive(p, payloads, limit) ==
    /\ pc[p] = "idle"
    /\ \E body \in Batches(payloads, limit - received) :
          /\ IF body = <<>>
             THEN Return(p)
             ELSE /\ incoming_data' = [incoming_data EXCEPT ![p] = body]
                  /\ pc' = [pc EXCEPT ![p] = "filter"]
                  /\ start_state' = [start_state EXCEPT ![p] = store]
                  /\ UNCHANGED <<unprocessed_data, state, pending_groups,
                                 generated_files, processed_groups_dict, saved>>
          /\ received' = received + Len(body)
    /\ UNCHANGED <<store, docs, clock>>
    /\ UNCHANGED pure_vars

\* STEP 1: filter_already_processed(incoming_data)
FilterStep(p, ok) ==
    /\ pc[p] = "filter"
    /\ LET unprocessed == filter_already_processed(get_state(ok), incoming_data[p])
       IN IF unprocessed = <<>>
          THEN Return(p)
          ELSE /\ unprocessed_data' = [unprocessed_data EXCEPT ![p] = unprocessed]
               /\ pc' = [pc EXCEPT ![p] = "ingest"]
               /\ UNCHANGED <<incoming_data, state, pending_groups, generated_files,
                              processed_groups_dict, saved, start_state>>
    /\ UNCHANGED <<store, docs, clock, received>>
    /\ UNCHANGED pure_vars

\* STEP 2, first half: add_records_to_state reads the ledger.
IngestRead(p, ok) ==
    /\ pc[p] = "ingest"
    /\ state' = [state EXCEPT ![p] = get_state(ok)]
    /\ pc' = [pc EXCEPT ![p] = "ingest_save"]
    /\ UNCHANGED <<store, incoming_data, unprocessed_data, pending_groups,
                   generated_files, processed_groups_dict, saved, start_state,
                   docs, clock, received>>
    /\ UNCHANGED pure_vars

\* Variant of IngestSave: the ledger is read again at the moment of the
\* write, as under a lock.
IngestSaveAtomic(p) ==
    /\ pc[p] = "ingest_save"
    /\ LET r == add_records_to_state(store, unprocessed_data[p], clock)
       IN /\ store' = IF r.save THEN r.state ELSE store
          /\ saved' = [saved EXCEPT ![p] = IF r.save THEN @ + 1 ELSE @]
    /\ clock' = clock + 1
    /\ pc' = [pc EXCEPT ![p] = "pending"]
    /\ UNCHANGED <<incoming_data, unprocessed_data, state, pending_groups,
                   generated_files, processed_groups_dict, start_state, docs,
                   received>>
    /\ UNCHANGED pure_vars

\* STEP 2, second half: the loop, and save_state when there are new records.
IngestSave(p) ==
    /\ pc[p] = "ingest_save"
    /\ LET r == add_records_to_state(state[p], unprocessed_data[p], clock)
       IN /\ store' = IF r.save THEN r.state ELSE store
          /\ saved' = [saved EXCEPT ![p] = IF r.save THEN @ + 1 ELSE @]
    /\ clock' = clock + 1
    /\ pc' = [pc EXCEPT ![p] = "pending"]
    /\ UNCHANGED <<incoming_data, unprocessed_data, state, pending_groups,
                   generated_files, processed_groups_dict, start_state, docs,
                   received>>
    /\ UNCHANGED pure_vars

\* Variant of IngestSaveRaises: the upload is cut short, the blob is left
\* with the new records and without their group memberships.
IngestSaveRaisesTorn(p, committed) ==
    /\ pc[p] = "ingest_save"
    /\ LET r == add_records_to_state(state[p], unprocessed_data[p], clock)
       IN /\ r.save
          /\ store' = [r.state EXCEPT !.pending_by_client_month =
                                         state[p].pending_by_client_month]
    /\ saved' = [saved EXCEPT ![p] = IF committed THEN @ + 1 ELSE @]
    /\ clock' = clock + 1
    /\ pc' = [pc EXCEPT ![p] = "failed"]
    /\ UNCHANGED <<incoming_data, unprocessed_data, state, pending_groups,
                   generated_files, processed_groups_dict, start_state, docs,
                   received>>
    /\ UNCHANGED pure_vars

\* STEP 2, second half, when upload_blob raises in save_state: the blob is
\* replaced as a whole or not at all (committed tells which, the error may
\* come after the service has stored the blob), and the exception leaves
\* add_records_to_state for the handler of main().
IngestSaveRaises(p, committed) ==
    /\ pc[p] = "ingest_save"
    /\ LET r == add_records_to_state(state[p], unprocessed_data[p], clock)
       IN /\ r.save
          /\ store' = IF committed THEN r.state ELSE store
    /\ saved' = [saved EXCEPT ![p] = IF committed THEN @ + 1 ELSE @]
    /\ clock' = clock + 1
    /\ pc' = [pc EXCEPT ![p] = "failed"]
    /\ UNCHANGED <<incoming_data, unprocessed_data, state, pending_groups,
                   generated_files, processed_groups_dict, start_state, docs,
                   received>>
    /\ UNCHANGED pure_vars

\* main(): except Exception, the response has status 500.
RespondError(p) ==
    /\ pc[p] = "failed"
    /\ Return(p)
    /\ UNCHANGED <<store, docs, clock, received>>
    /\ UNCHANGED pure_vars

\* STEP 3: get_unprocessed_pending_groups()
PendingStep(p, ok) ==
    /\ pc[p] = "pending"
    /\ LET groups == get_unprocessed_pending_groups(get_state(ok))
       IN IF groups = <<>>
          THEN Return(p)
          ELSE /\ pending_groups' = [pending_groups EXCEPT ![p] = groups]
               /\ pc' = [pc EXCEPT ![p] = "render"]
               /\ UNCHANGED <<incoming_data, unprocessed_data, state,
                              generated_files, processed_groups_dict, saved,
                              start_state>>
    /\ UNCHANGED <<store, docs, clock, received>>
    /\ UNCHANGED pure_vars

\* STEP 4: one PDF per pending group; failing are the consistent groups for
\* which transform_client_group or generate_pdf raises.
Render(p, failing) ==
    LET done == Generated(pending_groups[p], failing)
        files == [j \in 1..Len(done) |-> FileInfo(done[j])]
        dict == [j \in 1..Len(done) |->
                    [key |-> done[j].key, ids |-> ObjIdList(done[j].objs)]]
    IN /\ docs' = docs \o dict
       /\ IF dict = <<>>
          THEN Return(p)
          ELSE /\ generated_files' = [generated_files EXCEPT ![p] = files]
               /\ processed_groups_dict' =
                      [processed_groups_dict EXCEPT ![p] = dict]
               /\ pc' = [pc EXCEPT ![p] = "mark"]
               /\ UNCHANGED <<incoming_data, unprocessed_data, state,
                              pending_groups, saved, start_state>>
       /\ UNCHANGED <<store, clock, received>>
       /\ UNCHANGED pure_vars

\* STEP 4 when generate_pdf may raise for any group.
RenderStep(p) ==
    /\ pc[p] = "render"
    /\ \E failing \in SUBSET { i \in 1..Len(pending_groups[p]) :
                                validate_group_consistency(pending_groups[p][i].objs) } :
          /\ Raising(pending_groups[p]) \subseteq failing
          /\ Render(p, failing)

\* STEP 4 when nothing raises but the transformation of a malformed record.
RenderStepData(p) ==
    /\ pc[p] = "render"
    /\ Render(p, Raising(pending_groups[p]))

\* STEP 5, first half: update_after_processing reads the ledger.
MarkRead(p, ok) ==
    /\ pc[p] = "mark"
    /\ state' = [state EXCEPT ![p] = get_state(ok)]
    /\ pc' = [pc EXCEPT ![p] = "mark_save"]
    /\ UNCHANGED <<store, incoming_data, unprocessed_data, pending_groups,
                   generated_files, processed_groups_dict, saved, start_state,
                   docs, clock, received>>
    /\ UNCHANGED pure_vars

\* STEP 5, second half: mark the records and save_state; main() returns.
MarkSave(p) ==
    /\ pc[p] = "mark_save"
    /\ store' = update_after_processing(state[p], processed_groups_dict[p],
                                        generated_files[p], clock)
    /\ clock' = clock + 1
    /\ Return(p)
    /\ UNCHANGED <<docs, received>>
    /\ UNCHANGED pure_vars

\* Non-overlapping cycles, every store read and write succeeds.
Next ==
    \/ Receive(1, Payloads, MaxRows)
    \/ FilterStep(1, TRUE)
    \/ IngestRead(1, TRUE)
    \/ IngestSave(1)
    \/ PendingStep(1, TRUE)
    \/ RenderStep(1)
    \/ MarkRead(1, TRUE)
    \/ MarkSave(1)

Spec == Init /\ [][Next]_vars

\* Non-overlapping cycles in which any ledger read may fail.
NextFail ==
    \/ Receive(1, Payloads, MaxRows)
    \/ \E ok \in BOOLEAN : FilterStep(1, ok)
    \/ \E ok \in BOOLEAN : IngestRead(1, ok)
    \/ IngestSave(1)
    \/ \E ok \in BOOLEAN : PendingStep(1, ok)
    \/ RenderStep(1)
    \/ \E ok \in BOOLEAN : MarkRead(1, ok)
    \/ MarkSave(1)

SpecFail == Init /\ [][NextFail]_vars

\* Two invocations interleaved on the same blob, every read and write
\* succeeds; the requests carry rows of one client-month.
NextRace ==
    \E p \in Procs :
        \/ Receive(p, NovemberRows, MaxRaceRows)
        \/ FilterStep(p, TRUE)
        \/ IngestRead(p, TRUE)
        \/ IngestSave(p)
        \/ PendingStep(p, TRUE)
        \/ RenderStep(p)
        \/ MarkRead(p, TRUE)
        \/ MarkSave(p)

SpecRace == Init /\ [][NextRace]_vars

\* Non-overlapping cycles on rows that may lack a required field; every
\* store access succeeds and generate_pdf raises for no other reason.
NextMalformed ==
    \/ Receive(1, MalformedPayloads, MaxRows)
    \/ FilterStep(1, TRUE)
    \/ IngestRead(1, TRUE)
    \/ IngestSave(1)
    \/ PendingStep(1, TRUE)
    \/ RenderStepData(1)
    \/ MarkRead(1, TRUE)
    \/ MarkSave(1)

SpecMalformed == Init /\ [][NextMalformed]_vars

\* Non-overlapping cycles in which the upload of add_records_to_state may
\* fail; every read succeeds.
NextWriteFail ==
    \/ Receive(1, Payloads, MaxRows)
    \/ FilterStep(1, TRUE)
    \/ IngestRead(1, TRUE)
    \/ IngestSave(1)
    \/ \E committed \in BOOLEAN : IngestSaveRaises(1, committed)
    \/ RespondError(1)
    \/ PendingStep(1, TRUE)
    \/ RenderStep(1)
    \/ MarkRead(1, TRUE)
    \/ MarkSave(1)

SpecWriteFail == Init /\ [][NextWriteFail]_vars

-----------------------------------------------------------------------------
(* Properties of the ledger *)

\* Some ledger record with this id has bestdoc = true.
MarkedProcessed(records, id) ==
    \E i \in 1..Len(records) :
        records[i].internfactuurnummer = id /\ records[i].bestdoc

\* The positions (group, index) at which id is a member.
Memberships(st, id) ==
    UNION { { <<g, j>> : j \in { k \in 1..Len(st.pending_by_client_month[g].objs) :
                                    st.pending_by_client_month[g].objs[k].id = id } } :
            g \in 1..Len(st.pending_by_client_month) }

\* The generated documents that include id.
DocsWith(history, id) == { d \in 1..Len(history) : id \in Range(history[d].ids) }

RowIds(rows) == { rows[i].INTERNFACTUURNUMMER : i \in 1..Len(rows) }

IsPrefix(s, t) == Len(s) <= Len(t) /\ SubSeq(t, 1, Len(s)) = s

\* C1: after any sequence of ingests every id has exactly one ledger record
\* and is a member exactly once over all groups, also when the id came
\* twice in one batch.
C1_OneEntryPerId ==
    /\ \A i, j \in 1..Len(store.records) :
          store.records[i].internfactuurnummer = store.records[j].internfactuurnummer
              => i = j
    /\ \A id \in RecordIds(store.records) : Cardinality(Memberships(store, id)) = 1

\* C2: over non-overlapping cycles with a working store, every record id is
\* included in at most one generated document.
C2_RenderedAtMostOnce ==
    \A id \in 1..MaxId : Cardinality(DocsWith(docs, id)) <= 1

\* The members of group g that no ledger record marks processed.
OpenMembers(st, g) ==
    LET Open(obj) == ~MarkedProcessed(st.records, obj.id)
    IN SelectSeq(g.objs, Open)

\* What get_unprocessed_pending_groups handed to main() in the step p takes.
PendingResult(p) == IF pc'[p] = "render" THEN pending_groups'[p] ELSE <<>>

\* C3: pendingGroups returns a group exactly when one of its members is still
\* unprocessed, with exactly its unprocessed members in member-list order;
\* a group whose members are all processed is omitted.
C3_PendingExactlyUnprocessed ==
    [][\A p \in Procs :
          (pc[p] = "pending" /\ pc'[p] # "pending") =>
              /\ \A i \in 1..Len(store.pending_by_client_month) :
                    LET g == store.pending_by_client_month[i]
                    IN IF OpenMembers(store, g) = <<>>
                       THEN ~HasKey(PendingResult(p), g.key)
                       ELSE /\ HasKey(PendingResult(p), g.key)
                            /\ Lookup(PendingResult(p), g.key) = OpenMembers(store, g)
              /\ \A i \in 1..Len(PendingResult(p)) :
                    /\ HasKey(store.pending_by_client_month, PendingResult(p)[i].key)
                    /\ \A j \in 1..Len(PendingResult(p)) :
                          PendingResult(p)[i].key = PendingResult(p)[j].key => i = j
      ]_vars

\* C3 witness: main() holds a group returned with fewer members than its
\* member list, the others being marked processed.
C3_Witness ==
    /\ pc[1] = "render"
    /\ \E i \in 1..Len(store.pending_by_client_month) :
          LET g == store.pending_by_client_month[i]
          IN /\ HasKey(pending_groups[1], g.key)
             /\ Len(Lookup(pending_groups[1], g.key)) < Len(g.objs)
             /\ \E o \in Range(g.objs) : MarkedProcessed(store.records, o.id)

\* C4: every step extends each member list: no group is deleted, no member
\* removed or reordered, and pendingGroups and markProcessed leave the
\* member lists as they are.
C4_MembershipAppendOnly ==
    [][/\ Len(store'.pending_by_client_month) >= Len(store.pending_by_client_month)
       /\ \A i \in 1..Len(store.pending_by_client_month) :
             /\ store'.pending_by_client_month[i].key = store.pending_by_client_month[i].key
             /\ IsPrefix(store.pending_by_client_month[i].objs,
                         store'.pending_by_client_month[i].objs)
       /\ \A p \in Procs :
             (pc[p] \in {"pending", "mark_save"} /\ pc'[p] # pc[p]) =>
                 store'.pending_by_client_month = store.pending_by_client_month
      ]_vars

\* C4 witness: a group that was marked processed and then grew by a member.
C4_Witness ==
    \E i \in 1..Len(store.pending_by_client_month) :
        LET objs == store.pending_by_client_month[i].objs
        IN /\ Len(objs) >= 2
           /\ MarkedProcessed(store.records, objs[1].id)
           /\ ~MarkedProcessed(store.records, objs[2].id)
           /\ \E r \in Range(store.records) :
                 /\ r.internfactuurnummer = objs[1].id
                 /\ \E q \in Range(store.records) :
                       /\ q.internfactuurnummer = objs[2].id
                       /\ q.added_at > r.bestdoc_generated_at
                       /\ r.bestdoc

\* The ids whose records the write of invocation p may add.
OwnRecords(p) == IF pc[p] = "ingest_save" THEN RowIds(unprocessed_data[p]) ELSE {}

\* The ids the write of invocation p may mark processed.
OwnMarks(p) ==
    IF pc[p] = "mark_save" THEN Range(Extend(processed_groups_dict[p])) ELSE {}

\* C5: a write made from a snapshot that is older than the blob replaces the
\* blob by that snapshot plus the writer's own change: records and processed
\* marks another invocation stored in between are absent afterwards.
C5_StaleWriterOverwrites ==
    [][\A p \in Procs :
          (pc[p] \in {"ingest_save", "mark_save"} /\ pc'[p] # pc[p] /\ store' # store) =>
              /\ \A id \in RecordIds(store.records) :
                    id \notin RecordIds(state[p].records) \cup OwnRecords(p)
                        => id \notin RecordIds(store'.records)
              /\ \A id \in RecordIds(store.records) :
                    (/\ MarkedProcessed(store.records, id)
                     /\ ~MarkedProcessed(state[p].records, id)
                     /\ id \notin OwnMarks(p))
                        => ~MarkedProcessed(store'.records, id)
      ]_vars

\* C5 witness: both invocations have uploaded the ledger, and the record the
\* first one added is not in the blob.
C5_Witness ==
    /\ saved[1] >= 1
    /\ saved[2] >= 1
    /\ pc[1] \in {"pending", "render", "mark", "mark_save"}
    /\ \E id \in RowIds(unprocessed_data[1]) :
          /\ id \notin RecordIds(start_state[1].records)
          /\ id \notin RecordIds(store.records)

\* C6: with failing ledger reads, a record that is marked processed stays in
\* the ledger, stays processed, and is not rendered again.
C6_ProcessedSurvivesReadFailure ==
    [][\A id \in 1..MaxId :
          MarkedProcessed(store.records, id) =>
              /\ MarkedProcessed(store'.records, id)
              /\ DocsWith(docs', id) = DocsWith(docs, id)
      ]_vars

\* What filter_already_processed handed to main() in the step p takes.
FilterResult(p) == IF pc'[p] = "ingest" THEN unprocessed_data'[p] ELSE <<>>

\* C7 as stated: the filter returns the incoming records whose id is not in
\* the ledger, in input order, and writes nothing.
C7_FilterKeepsUnseen ==
    [][\A p \in Procs :
          (pc[p] = "filter" /\ pc'[p] # "filter") =>
              LET Unseen(record) ==
                      record.INTERNFACTUURNUMMER \notin RecordIds(store.records)
              IN /\ FilterResult(p) = SelectSeq(incoming_data[p], Unseen)
                 /\ store' = store
                 /\ saved'[p] = saved[p]
      ]_vars

\* C7 amended: the filter returns the incoming records whose id no ledger
\* record marks processed, in input order, and writes nothing.
C7_FilterKeepsUnprocessed ==
    [][\A p \in Procs :
          (pc[p] = "filter" /\ pc'[p] # "filter") =>
              LET Open(record) ==
                      ~MarkedProcessed(store.records, record.INTERNFACTUURNUMMER)
              IN /\ FilterResult(p) = SelectSeq(incoming_data[p], Open)
                 /\ store' = store
                 /\ saved'[p] = saved[p]
      ]_vars

\* C7 witness: the ledger holds a processed record, and the filter has kept
\* a record that the ledger holds unprocessed.
C7_Witness ==
    /\ pc[1] = "ingest"
    /\ \E r \in Range(unprocessed_data[1]) :
          r.INTERNFACTUURNUMMER \in RecordIds(store.records)
    /\ \E r \in Range(store.records) : r.bestdoc
    /\ saved[1] = 0

\* The filenames of the files generated by invocation p for a group that
\* has id as a member.
FilenamesFor(p, id) ==
    { generated_files[p][i].filename :
        i \in { j \in 1..Len(generated_files[p]) :
                  /\ id \in Range(generated_files[p][j].internfactuurnummer)
                  /\ HasKey(store.pending_by_client_month,
                            generated_files[p][j].client_month_key)
                  /\ id \in ObjIds(Lookup(store.pending_by_client_month,
                                          generated_files[p][j].client_month_key)) } }

\* C8: update_after_processing gives every ledger record whose id it was
\* given bestdoc = true, bestdoc_generated_at = now and the filename of the
\* file generated for the group holding the id; every id it was given has a
\* record, and all other records stay as they were.
C8_MarkSetsFields ==
    [][\A p \in Procs :
          (pc[p] = "mark_save" /\ pc'[p] # "mark_save") =>
              LET ids == Range(Extend(processed_groups_dict[p]))
              IN /\ Len(store'.records) = Len(store.records)
                 /\ ids \subseteq RecordIds(store'.records)
                 /\ \A i \in 1..Len(store.records) :
                       IF store.records[i].internfactuurnummer \in ids
                       THEN /\ store'.records[i].bestdoc
                            /\ store'.records[i].bestdoc_generated_at = clock
                            /\ store'.records[i].bestdoc_filename
                                  \in FilenamesFor(p, store.records[i].internfactuurnummer)
                            /\ store'.records[i] =
                                  [store.records[i] EXCEPT
                                      !.bestdoc = TRUE,
                                      !.bestdoc_generated_at = clock,
                                      !.bestdoc_filename = store'.records[i].bestdoc_filename]
                       ELSE store'.records[i] = store.records[i]
      ]_vars

\* C8 witness: the ledger after a marking that covered two groups at once:
\* two records processed at the same instant under different filenames.
C8_Witness ==
    \E i, j \in 1..Len(store.records) :
        /\ store.records[i].bestdoc
        /\ store.records[j].bestdoc
        /\ store.records[i].bestdoc_generated_at = store.records[j].bestdoc_generated_at
        /\ store.records[i].bestdoc_filename # store.records[j].bestdoc_filename
        /\ store.records[i].bestdoc_filename # NoFile
        /\ store.records[j].bestdoc_filename # NoFile

\* C9: add_records_to_state with a batch whose ids are all in the ledger
\* uploads nothing and leaves the blob as it is.
C9_ReingestIsNoOp ==
    [][\A p \in Procs :
          (/\ pc[p] = "ingest_save"
           /\ pc'[p] # "ingest_save"
           /\ RowIds(unprocessed_data[p]) \subseteq RecordIds(store.records)) =>
              /\ store' = store
              /\ saved'[p] = saved[p]
      ]_vars

\* C9 witness: add_records_to_state has returned without an upload, every id
\* of its batch being in the ledger since before the invocation.
C9_Witness ==
    /\ pc[1] = "pending"
    /\ saved[1] = 0
    /\ unprocessed_data[1] # <<>>
    /\ RowIds(unprocessed_data[1]) \subseteq RecordIds(start_state[1].records)
    /\ store = start_state[1]

\* The ids of the batch of invocation p that were new to the ledger and map
\* to the group key.
NewIdsFor(p, key) ==
    { unprocessed_data[p][i].INTERNFACTUURNUMMER :
        i \in { j \in 1..Len(unprocessed_data[p]) :
                  /\ unprocessed_data[p][j].INTERNFACTUURNUMMER
                        \notin RecordIds(start_state[p].records)
                  /\ generate_client_month_key(unprocessed_data[p][j].KLANT,
                                               unprocessed_data[p][j].DATUM) = key } }

\* A group of the ledger st all of whose members are marked processed.
Closed(st, g) ==
    g.objs # <<>> /\ \A o \in Range(g.objs) : MarkedProcessed(st.records, o.id)

\* C10: when a group was fully processed before the cycle and the cycle
\* ingests unseen records with the same key, pendingGroups returns the
\* group with exactly the new records, and the earlier members are still
\* members, processed, with the filename they had.
C10_GroupRevisited ==
    \A p \in Procs :
        pc[p] = "render" =>
            \A i \in 1..Len(start_state[p].pending_by_client_month) :
                LET g == start_state[p].pending_by_client_month[i]
                IN (Closed(start_state[p], g) /\ NewIdsFor(p, g.key) # {}) =>
                      /\ HasKey(pending_groups[p], g.key)
                      /\ ObjIds(Lookup(pending_groups[p], g.key)) = NewIdsFor(p, g.key)
                      /\ Len(Lookup(pending_groups[p], g.key))
                            = Cardinality(NewIdsFor(p, g.key))
                      /\ IsPrefix(g.objs, Lookup(store.pending_by_client_month, g.key))
                      /\ \A k \in 1..Len(start_state[p].records) :
                            start_state[p].records[k].internfactuurnummer \in ObjIds(g.objs)
                                => store.records[k] = start_state[p].records[k]

\* C10 witness: main() is about to render a group that was fully processed
\* when the request arrived.
C10_Witness ==
    /\ pc[1] = "render"
    /\ \E i \in 1..Len(start_state[1].pending_by_client_month) :
          LET g == start_state[1].pending_by_client_month[i]
          IN /\ Closed(start_state[1], g)
             /\ NewIdsFor(1, g.key) # {}
             /\ HasKey(pending_groups[1], g.key)

-----------------------------------------------------------------------------
(* C11: case and spacing variants of one client name *)

\* The spellings of KLANT carried by the records of one pending group.
Spellings(objs) == { objs[j].KLANT : j \in 1..Len(objs) }

\* C11: when the pending groups of a cycle hold a group whose records spell
\* the client name differently (same key, so they differ only in letter case
\* or spacing), the render step of that cycle puts all records of the group
\* into one generated document, which then marks them processed.
C11_SpellingVariantsRenderedTogether ==
    [][\A i \in 1..Len(pending_groups[1]) :
          LET g == pending_groups[1][i]
          IN (/\ pc[1] = "render"
              /\ pc'[1] # "render"
              /\ Cardinality(Spellings(g.objs)) > 1)
             => \E d \in (Len(docs) + 1)..Len(docs') :
                   /\ docs'[d].key = g.key
                   /\ Range(docs'[d].ids) = ObjIds(g.objs)]_vars

-----------------------------------------------------------------------------
(* generate_client_month_key exercised on its own, as add_records_to_state
   calls it on the KLANT and DATUM of a Table1 row *)

MaxKeyCalls == 2    \* calls of generate_client_month_key in one behaviour

\* What a JSON row holds under a field name: nothing, null, or a string.
JsonStr(s) == [kind |-> "str", chars |-> s]

JsonNull == [kind |-> "null", chars |-> <<>>]

JsonAbsent == [kind |-> "absent", chars |-> <<>>]

\* Client names: one client under several spellings, and another client.
KeyKlants ==
    { JsonStr(s) : s \in { <<"A", "b">>, <<"a", " ", "B">>, <<"a", "\t", "b">>,
                           <<"A", "-", "b">>, <<"a", "'", "B">>, <<"C">> } }
    \cup { JsonAbsent }

\* Dates: two days of November, one of December, a non-numeric string of
\* eight characters, a short string, the empty string, null, no field.
KeyDatums ==
    { JsonStr(s) : s \in { <<"2", "0", "2", "5", "1", "1", "0", "3">>,
                           <<"2", "0", "2", "5", "1", "1", "2", "3">>,
                           <<"2", "0", "2", "5", "1", "2", "1", "0">>,
                           <<"2", "0", "2", "5", "-", "1", "1", "x">>,
                           <<"2", "0", "2", "5">>,
                           <<>> } }
    \cup { JsonNull, JsonAbsent }

\* record.get(field, "")
get(v) == IF v.kind = "absent" THEN JsonStr(<<>>) ELSE v

NoKey == <<>>

\* klant = record.get("KLANT", ""); datum = record.get("DATUM", "");
\* client_month_key = generate_client_month_key(klant, datum).
\* len(None) and None.replace raise.
KeyOf(record) ==
    LET k == get(record.KLANT)
        d == get(record.DATUM)
    IN IF d.kind = "str" /\ k.kind = "str"
       THEN [raised |-> FALSE,
             key |-> generate_client_month_key(k.chars, d.chars)]
       ELSE [raised |-> TRUE, key |-> NoKey]

\* One call, on any client name and date of the universe.
DeriveKey ==
    /\ Len(key_calls) < MaxKeyCalls
    /\ \E k \in KeyKlants, d \in KeyDatums :
          LET record == [KLANT |-> k, DATUM |-> d]
          IN key_calls' = Append(key_calls,
                                 [record |-> record,
                                  result |-> KeyOf(record)])
    /\ UNCHANGED <<ledger_vars, plan_vars, draw_vars, wrap_vars, debet_vars>>

InitKey == LedgerInit /\ key_calls = <<>> /\ PlanIdle /\ DrawIdle /\ WrapIdle /\ DebetIdle

NextKey == DeriveKey

SpecKey == InitKey /\ [][NextKey]_vars

\* A name after removing all whitespace and the characters - and ', and
\* uppercasing.
Whitespace == {" ", "\t", "\n", "\r"}

NotRemoved(c) == c \notin Whitespace \cup {"-", "'"}

NormalizedName(s) == upper(SelectSeq(s, NotRemoved))

EightDigits(v) == v.kind = "str" /\ Len(v.chars) = 8 /\ isdigit(v.chars)

\* C12: two calls on names that are equal after removing all whitespace, -
\* and ' and uppercasing, and on 8-digit dates with the same first six
\* digits, return the same key.
C12_EqualNormalizedNamesShareKey ==
    \A i, j \in 1..Len(key_calls) :
        LET a == key_calls[i]
            b == key_calls[j]
        IN (/\ a.record.KLANT.kind = "str"
            /\ b.record.KLANT.kind = "str"
            /\ NormalizedName(a.record.KLANT.chars)
                 = NormalizedName(b.record.KLANT.chars)
            /\ EightDigits(a.record.DATUM)
            /\ EightDigits(b.record.DATUM)
            /\ Prefix(a.record.DATUM.chars, 6) = Prefix(b.record.DATUM.chars, 6))
           => a.result = b.result

EndsWith(s, t) ==
    Len(t) <= Len(s) /\ SubSeq(s, Len(s) - Len(t) + 1, Len(s)) = t

\* C13: whatever date value the row carries, the derivation does not raise
\* and the key ends with _ and the first six characters of the date string
\* (the whole string when it is shorter).
C13_KeyDerivationNeverRaises ==
    \A i \in 1..Len(key_calls) :
        LET c == key_calls[i]
            d == get(c.record.DATUM)
        IN /\ ~c.result.raised
           /\ d.kind = "str"
                => EndsWith(c.result.key, <<"_">> \o Prefix(d.chars, 6))

-----------------------------------------------------------------------------
(* C14: records that lack a required field *)

WellFormed(obj) == obj.PROCESSFACTUURNUMMER # NullNumber

\* C14: the render step of a cycle puts every well-formed record of every
\* pending group into a generated document, which marks it processed, and
\* leaves every malformed record out of the generated documents.
C14_MalformedSkippedOthersRendered ==
    [][(pc[1] = "render" /\ pc'[1] # "render")
         => \A i \in 1..Len(pending_groups[1]) :
               LET g == pending_groups[1][i]
               IN \A j \in 1..Len(g.objs) :
                     LET rendered ==
                             \E d \in (Len(docs) + 1)..Len(docs') :
                                /\ docs'[d].key = g.key
                                /\ g.objs[j].id \in Range(docs'[d].ids)
                     IN WellFormed(g.objs[j]) <=> rendered]_vars

-----------------------------------------------------------------------------
(* C15: a group whose validation, transformation or rendering fails *)

\* The results list of STEP 4: one entry per pending group, in order; the
\* entry is a success when a file was generated for the group.
Results(pending, files) ==
    [i \in 1..Len(pending) |->
        [client_month_key |-> pending[i].key,
         success |-> \E f \in 1..Len(files) :
                        files[f].client_month_key = pending[i].key]]

\* The ledger records that belong to group g: those with an id of the
\* group and with the group's key.
RecordsOf(records, g) ==
    { i \in 1..Len(records) :
        /\ records[i].internfactuurnummer \in ObjIds(g.objs)
        /\ generate_client_month_key(records[i].klant, records[i].datum) = g.key }

\* C15: when the cycle writes its marks, a pending group that failed has
\* one error entry and no file in the response and none of its records
\* becomes processed, and every other pending group has a file and all its
\* records become processed.
C15_FailedGroupIsolated ==
    [][pc[1] = "mark_save" /\ pc'[1] = "idle"
         => LET res == Results(pending_groups[1], generated_files[1])
            IN \A i \in 1..Len(pending_groups[1]) :
                  LET g == pending_groups[1][i]
                      entries == { e \in 1..Len(res) :
                                     res[e].client_month_key = g.key }
                      mine == RecordsOf(store'.records, g)
                  IN /\ Cardinality(entries) = 1
                     /\ IF res[i].success
                        THEN \A r \in mine : store'.records[r].bestdoc
                        ELSE \A r \in mine :
                                store'.records[r].bestdoc = store.records[r].bestdoc
                                ]_vars

-----------------------------------------------------------------------------
(* C16: add_records_to_state persists a batch all-or-nothing *)

\* The rows of the batch of invocation p that have an id the ledger read by
\* add_records_to_state does not hold.
Unseen(p) ==
    { i \in 1..Len(unprocessed_data[p]) :
        /\ Truthy(unprocessed_data[p][i].INTERNFACTUURNUMMER)
        /\ unprocessed_data[p][i].INTERNFACTUURNUMMER
              \notin RecordIds(state[p].records) }

\* The row is in the ledger st: as an unprocessed record, and with its id
\* in the member list of its group.
Persisted(st, row) ==
    /\ \E r \in 1..Len(st.records) :
          /\ st.records[r].internfactuurnummer = row.INTERNFACTUURNUMMER
          /\ st.records[r].klant = row.KLANT
          /\ st.records[r].datum = row.DATUM
          /\ ~st.records[r].bestdoc
    /\ \E g \in 1..Len(st.pending_by_client_month) :
          /\ st.pending_by_client_month[g].key
                = generate_client_month_key(row.KLANT, row.DATUM)
          /\ row.INTERNFACTUURNUMMER \in ObjIds(st.pending_by_client_month[g].objs)

\* C16: when add_records_to_state ends, either every unseen row of the
\* batch that has an id is in the stored ledger, unprocessed and a member of
\* its group, or the stored ledger is unchanged and the call has raised.
C16_BatchAllOrNothing ==
    [][(pc[1] = "ingest_save" /\ pc'[1] # "ingest_save")
         => \/ \A i \in Unseen(1) : Persisted(store', unprocessed_data[1][i])
            \/ store' = store /\ pc'[1] = "failed"]_vars

\* C16 witness: the upload of a batch with two unseen rows has raised and
\* the stored ledger is the one the invocation started from, without them.
C16_Witness ==
    /\ pc[1] = "failed"
    /\ Cardinality(Unseen(1)) >= 2
    /\ store = start_state[1]
    /\ \A i \in Unseen(1) : ~Persisted(store, unprocessed_data[1][i])

-----------------------------------------------------------------------------
(* transform_client_group and the row planning of draw_table, exercised on
   the records of one group; the two function apps differ in the
   transformer *)

MaxItems == 2    \* line items in the LINE_ITEMS of one record

\* INTERNFACTUURNUMMER of the records of the group.
PlanIds == {1, 2}

\* zendtarieflijnnummer of the line items.
SeqNumbers == {1, 2, 3}

Fisc == "DkmFiscbestdocProcessor"

Daily == "DkmDailyBestDocProcessor"

Processors == {Fisc, Daily}

\* json.loads(LINE_ITEMS) of record rid: items with the sequence numbers
\* nums, in payload order; the goods code tells the items apart.
LineItemsOf(rid, nums) ==
    [k \in 1..Len(nums) |->
        [zendtarieflijnnummer |-> nums[k], goederencode |-> <<rid, k>>]]

PlanRecords ==
    { [INTERNFACTUURNUMMER |-> i, LINE_ITEMS |-> LineItemsOf(i, nums)] :
        i \in PlanIds, nums \in SeqsUpTo(SeqNumbers, MaxItems) }

\* The groups main() hands to transform_client_group: at least one record,
\* no id twice (a group holds an id once: state_manager.py:132-136).
PlanGroups ==
    { g \in SeqsUpTo(PlanRecords, Cardinality(PlanIds)) :
        /\ g # <<>>
        /\ \A a, b \in 1..Len(g) :
              a # b => g[a].INTERNFACTUURNUMMER # g[b].INTERNFACTUURNUMMER }

LineItem(item, record) ==
    [zendtarieflijnnummer |-> item.zendtarieflijnnummer,
     goederencode |-> item.goederencode,
     source_internfactuurnummer |-> record.INTERNFACTUURNUMMER]

\* The list the for loops of transform_client_group append to.
RECURSIVE all_line_items(_)
all_line_items(records) ==
    IF records = <<>> THEN <<>>
    ELSE LET record == Head(records)
         IN [k \in 1..Len(record.LINE_ITEMS) |->
                LineItem(record.LINE_ITEMS[k], record)]
            \o all_line_items(Tail(records))

\* list.sort(key=lambda x: x.zendtarieflijnnummer): stable.
InsertByNumber(sorted, x) ==
    LET n == Cardinality({ i \in 1..Len(sorted) :
                 sorted[i].zendtarieflijnnummer <= x.zendtarieflijnnummer })
    IN SubSeq(sorted, 1, n) \o <<x>> \o SubSeq(sorted, n + 1, Len(sorted))

RECURSIVE sort(_)
sort(items) ==
    IF items = <<>> THEN <<>>
    ELSE InsertByNumber(sort(SubSeq(items, 1, Len(items) - 1)), items[Len(items)])

\* Only the transformer of DkmDailyBestDocProcessor sorts.
transform_client_group(app, records) ==
    [records |-> [i \in 1..Len(records) |->
                     [internfactuurnummer |-> records[i].INTERNFACTUURNUMMER]],
     line_items |-> IF app = Daily THEN sort(all_line_items(records))
                    ELSE all_line_items(records)]

\* The first six columns of a row that is not the first of its record.
Blank == 0

\* The rows of one record: line_items_by_record.get(rid, []), the record's
\* columns on the first row only.
RowsOf(record, line_items) ==
    LET Mine(item) == item.source_internfactuurnummer = record.internfactuurnummer
        items == SelectSeq(line_items, Mine)
    IN [idx \in 1..Len(items) |->
          [record_columns |-> IF idx = 1 THEN record.internfactuurnummer ELSE Blank,
           zendtarieflijnnummer |-> items[idx].zendtarieflijnnummer,
           goederencode |-> items[idx].goederencode]]

\* Variant of build_table_data: one row per line item in the order of
\* data.line_items, without grouping by record.
build_table_data_ungrouped(records, line_items) ==
    [k \in 1..Len(line_items) |->
        [record_columns |->
            IF \E j \in 1..(k - 1) : line_items[j].source_internfactuurnummer
                                        = line_items[k].source_internfactuurnummer
            THEN Blank ELSE line_items[k].source_internfactuurnummer,
         zendtarieflijnnummer |-> line_items[k].zendtarieflijnnummer,
         goederencode |-> line_items[k].goederencode]]

\* record_start_rows after the loop over data.records: the row of the first
\* line item of every record that has line items; current_row is the row
\* the next record starts at (the header is row 0).
RECURSIVE record_start_rows(_, _, _)
record_start_rows(records, line_items, current_row) ==
    IF records = <<>> THEN <<>>
    ELSE LET rid == Head(records).internfactuurnummer
             n == Len(RowsOf(Head(records), line_items))
             later == record_start_rows(Tail(records), line_items, current_row + n)
         IN IF n = 0 THEN later
            ELSE [r \in DOMAIN later \cup {rid} |->
                    IF r \in DOMAIN later THEN later[r] ELSE current_row]

\* Variant of LineAbove: a rule above the first row of every record.
LineAboveEveryRecord(starts) == { starts[rid] : rid \in DOMAIN starts }

\* The rows that get ('LINEABOVE', (0, start), (5, start), ...).
LineAbove(starts) == { starts[rid] : rid \in { r \in DOMAIN starts : starts[r] > 1 } }

\* table_data after the loop over data.records, without the header row.
RECURSIVE build_table_data(_, _)
build_table_data(records, line_items) ==
    IF records = <<>> THEN <<>>
    ELSE RowsOf(Head(records), line_items)
         \o build_table_data(Tail(records), line_items)

Transform ==
    /\ plan_pc = "transform"
    /\ bestemmings_data' = transform_client_group(processor, group_data)
    /\ plan_pc' = "build"
    /\ UNCHANGED <<processor, group_data, table_data, style>>
    /\ UNCHANGED <<ledger_vars, key_vars, draw_vars, wrap_vars, debet_vars>>

BuildRows ==
    /\ plan_pc = "build"
    /\ table_data' = build_table_data(bestemmings_data.records,
                                      bestemmings_data.line_items)
    /\ style' = IF processor = Daily
                THEN LineAbove(record_start_rows(bestemmings_data.records,
                                                 bestemmings_data.line_items, 1))
                ELSE {}
    /\ plan_pc' = "done"
    /\ UNCHANGED <<processor, group_data, bestemmings_data>>
    /\ UNCHANGED <<ledger_vars, key_vars, draw_vars, wrap_vars, debet_vars>>

InitPlan ==
    /\ LedgerInit /\ KeyIdle /\ DrawIdle /\ WrapIdle /\ DebetIdle
    /\ processor \in Processors
    /\ group_data \in PlanGroups
    /\ bestemmings_data = NoData
    /\ table_data = <<>>
    /\ style = {}
    /\ plan_pc = "transform"

NextPlan == Transform \/ BuildRows

SpecPlan == InitPlan /\ [][NextPlan]_vars

\* The record a planned row comes from, and its place in the group.
SourceOf(row) == row.goederencode[1]

PlaceOf(rid) ==
    CHOOSE i \in 1..Len(group_data) : group_data[i].INTERNFACTUURNUMMER = rid

C20_BlockRowsAscending ==
    plan_pc = "done" =>
        \A a, b \in 1..Len(table_data) :
            (a < b /\ SourceOf(table_data[a]) = SourceOf(table_data[b]))
                => table_data[a].zendtarieflijnnummer
                      <= table_data[b].zendtarieflijnnummer

-----------------------------------------------------------------------------
(* The pagination loop of draw_table (DkmDailyBestDocProcessor), exercised
   on planned rows of given heights.  Lengths are in half millimetres.  A
   table is a sequence of rows [id, h]: id 0 is the header row, which
   Table(..., repeatRows=1) repeats at the top of every remainder. *)

MaxFirst == 1    \* rows of any height before the run of tall rows
MaxTail == 51    \* rows in the run of tall rows

\* loop_count > 50
LoopCap == 50

\* landscape(A4)[1]: 210 mm
PageHeight == 420

\* y = page_height - 20*mm
TopOfPage == PageHeight - 40

\* bottom_margin = 15*mm
bottom_margin == 30

\* The y generate_pdf hands to draw_table: 210 mm less 12, 45 (header),
\* 10.5 (title) and 45 (two-column section).
StartY == PageHeight - 24 - 90 - 21 - 90

\* Height of the header row: font size 8 with paddings 6 and 6.
HeaderHeight == 15

\* Height of a row of one line (leading 8.5 with paddings 4 and 4), of a row
\* whose wrapped cell fills about half a page, of a row taller than a page.
OneLine == 12

TallRow == 170

Oversized == 400

RowHeights == {OneLine, TallRow, Oversized}

HeaderRow == [id |-> 0, h |-> HeaderHeight]

\* The planned rows with the heights hs, numbered from 1.
Planned(hs) == [k \in 1..Len(hs) |-> [id |-> k, h |-> hs[k]]]

\* The planned tables: some rows of any height, a run of tall rows, and
\* possibly one more row of any height.
PlannedTables ==
    { Planned(first \o [k \in 1..n |-> TallRow] \o last) :
        first \in SeqsUpTo(RowHeights, MaxFirst),
        n \in 0..MaxTail,
        last \in { <<>> } \cup { <<h>> : h \in RowHeights } }

\* table.wrap(width, 0)[1]
RECURSIVE Height(_)
Height(t) == IF t = <<>> THEN 0 ELSE Head(t).h + Height(Tail(t))

\* Table._getFirstPossibleSplitRowPosition: how many leading rows fit.
RECURSIVE Fitting(_, _)
Fitting(t, avail) ==
    IF t = <<>> \/ Head(t).h > avail THEN 0
    ELSE 1 + Fitting(Tail(t), avail - Head(t).h)

\* table.split(width, avail): nothing when no row fits under the header,
\* the table itself when all rows fit, else the rows that fit and the
\* header with the other rows.
split(t, avail) ==
    LET n == Fitting(t, avail)
    IN IF n <= 1 THEN <<>>
       ELSE IF n = Len(t) THEN <<t>>
       ELSE <<SubSeq(t, 1, n), <<t[1]>> \o SubSeq(t, n + 1, Len(t))>>

\* c.showPage()
showPage(cv) == Append(cv, <<>>)

\* piece.drawOn(c, 15*mm, at): the rows of the piece are drawn on the current
\* page, the bottom of the piece at height at.
drawOn(cv, piece, at, forced) ==
    [cv EXCEPT ![Len(cv)] =
        Append(@, [rows |-> [i \in 1..Len(piece) |-> piece[i].id],
                   at |-> at,
                   forced |-> forced])]

\* The split of the loop body: on the current page, and once more on a new
\* page when nothing fits on the current one.
Pieces(t, yy) ==
    LET pieces == split(t, yy - bottom_margin)
    IN IF pieces # <<>>
       THEN [new_page |-> FALSE, pieces |-> pieces]
       ELSE [new_page |-> TRUE, pieces |-> split(t, TopOfPage - bottom_margin)]

\* draw_table up to the loop: no table when there are no line items.
StartTable ==
    /\ draw_pc = "start"
    /\ IF table_data = <<>>
       THEN draw_pc' = "done" /\ table' = table
       ELSE draw_pc' = "loop" /\ table' = <<HeaderRow>> \o table_data
    /\ UNCHANGED <<y, loop_count, canvas>>
    /\ UNCHANGED <<ledger_vars, key_vars, plan_vars, wrap_vars, debet_vars>>

\* loop_count > 50: the remainder is drawn where it is, and the loop ends.
ForceRemainder ==
    /\ draw_pc = "loop"
    /\ loop_count + 1 > LoopCap
    /\ loop_count' = loop_count + 1
    /\ canvas' = drawOn(canvas, table, y - Height(table), TRUE)
    /\ draw_pc' = "done"
    /\ UNCHANGED <<table, y>>
    /\ UNCHANGED <<ledger_vars, key_vars, plan_vars, wrap_vars, debet_vars>>

\* Variant of DrawWhole: the table is drawn whether it fits or not.
DrawWholeUnchecked ==
    /\ draw_pc = "loop"
    /\ loop_count + 1 <= LoopCap
    /\ loop_count' = loop_count + 1
    /\ canvas' = drawOn(canvas, table, y - Height(table), FALSE)
    /\ y' = y - Height(table) - 6
    /\ draw_pc' = "done"
    /\ UNCHANGED table
    /\ UNCHANGED <<ledger_vars, key_vars, plan_vars, wrap_vars, debet_vars>>

\* table_height <= avail_height: the table is drawn and draw_table returns.
DrawWhole ==
    /\ draw_pc = "loop"
    /\ loop_count + 1 <= LoopCap
    /\ Height(table) <= y - bottom_margin
    /\ loop_count' = loop_count + 1
    /\ canvas' = drawOn(canvas, table, y - Height(table), FALSE)
    /\ y' = y - Height(table) - 6
    /\ draw_pc' = "done"
    /\ UNCHANGED table
    /\ UNCHANGED <<ledger_vars, key_vars, plan_vars, wrap_vars, debet_vars>>

\* The table does not fit and a part of it does, on this page or on a new
\* one: part0.drawOn is called twice, and the loop goes on with the
\* remainder on a new page, or ends when there is none.
DrawPart ==
    /\ draw_pc = "loop"
    /\ loop_count + 1 <= LoopCap
    /\ Height(table) > y - bottom_margin
    /\ LET s == Pieces(table, y)
           page == IF s.new_page THEN showPage(canvas) ELSE canvas
           at == (IF s.new_page THEN TopOfPage ELSE y) - Height(s.pieces[1])
           drawn == drawOn(drawOn(page, s.pieces[1], at, FALSE),
                           s.pieces[1], at, FALSE)
       IN /\ s.pieces # <<>>
          /\ IF Len(s.pieces) > 1
             THEN /\ table' = s.pieces[2]
                  /\ canvas' = showPage(drawn)
                  /\ y' = TopOfPage
                  /\ draw_pc' = "loop"
             ELSE /\ table' = table
                  /\ canvas' = drawn
                  /\ y' = IF s.new_page THEN TopOfPage ELSE y
                  /\ draw_pc' = "done"
    /\ loop_count' = loop_count + 1
    /\ UNCHANGED <<ledger_vars, key_vars, plan_vars, wrap_vars, debet_vars>>

\* Variant of ForceOversized: the table is drawn and the loop goes on.
ForceOversizedAndRetry ==
    /\ draw_pc = "loop"
    /\ loop_count + 1 <= LoopCap
    /\ Height(table) > y - bottom_margin
    /\ Pieces(table, y).pieces = <<>>
    /\ loop_count' = loop_count + 1
    /\ canvas' = drawOn(showPage(canvas), table, TopOfPage - Height(table), TRUE)
    /\ y' = TopOfPage
    /\ draw_pc' = "loop"
    /\ UNCHANGED table
    /\ UNCHANGED <<ledger_vars, key_vars, plan_vars, wrap_vars, debet_vars>>

\* Nothing fits, on this page or on a new one: the table is drawn on the
\* new page as it is, and the loop ends.
ForceOversized ==
    /\ draw_pc = "loop"
    /\ loop_count + 1 <= LoopCap
    /\ Height(table) > y - bottom_margin
    /\ Pieces(table, y).pieces = <<>>
    /\ loop_count' = loop_count + 1
    /\ canvas' = drawOn(showPage(canvas), table, TopOfPage - Height(table), TRUE)
    /\ y' = TopOfPage
    /\ draw_pc' = "done"
    /\ UNCHANGED table
    /\ UNCHANGED <<ledger_vars, key_vars, plan_vars, wrap_vars, debet_vars>>

InitDraw ==
    /\ LedgerInit /\ KeyIdle /\ WrapIdle /\ DebetIdle
    /\ processor = Daily
    /\ group_data = <<>>
    /\ bestemmings_data = NoData
    /\ plan_pc = "done"
    /\ table_data \in PlannedTables
    /\ style = {}
    /\ table = <<>>
    /\ y = StartY
    /\ loop_count = 0
    /\ canvas = << <<>> >>
    /\ draw_pc = "start"

NextDraw ==
    \/ StartTable
    \/ ForceRemainder
    \/ DrawWhole
    \/ DrawPart
    \/ ForceOversized

SpecDraw == InitDraw /\ [][NextDraw]_vars

\* The loop body is executed as long as the loop has not ended.
SpecDrawFair == SpecDraw /\ WF_vars(NextDraw)

\* The draws of row id on the canvas: page, piece and place in the piece.
Draws(id) ==
    UNION { UNION { { <<p, d, i>> : i \in { k \in 1..Len(canvas[p][d].rows) :
                                              canvas[p][d].rows[k] = id } } :
                    d \in 1..Len(canvas[p]) } :
            p \in 1..Len(canvas) }

DrawsOnPage(id, p) == { t \in Draws(id) : t[1] = p }

\* The forced draws made so far.
ForcedDraws ==
    UNION { { <<p, d>> : d \in { k \in 1..Len(canvas[p]) : canvas[p][k].forced } } :
            p \in 1..Len(canvas) }

\* C17: when draw_table has returned, every planned row has been drawn
\* exactly once over all pages, and the header row exactly once on every
\* page that carries a part of the table.
C17_EachRowDrawnOnce ==
    draw_pc = "done" =>
        /\ \A k \in 1..Len(table_data) : Cardinality(Draws(k)) = 1
        /\ \A p \in 1..Len(canvas) :
              canvas[p] # <<>> => Cardinality(DrawsOnPage(0, p)) = 1

\* A planned row that fits on no page, even alone under the header.
FitsNoPage(row) == HeaderHeight + row.h > TopOfPage - bottom_margin

\* C18: the loop body runs at most LoopCap + 1 times and the loop ends; at
\* most one draw is forced, and one is forced when a row fits on no page or
\* the cap was exceeded.
C18_PaginationTerminates ==
    /\ [](loop_count <= LoopCap + 1)
    /\ [](Cardinality(ForcedDraws) <= 1)
    /\ <>(draw_pc = "done")
    /\ []((/\ draw_pc = "done"
           /\ \/ loop_count > LoopCap
              \/ \E k \in 1..Len(table_data) : FitsNoPage(table_data[k]))
          => Cardinality(ForcedDraws) = 1)

\* C18 witness: the loop has ended in its 51st run by forcing the
\* remainder, which holds a row that fits on no page.
C18_Witness ==
    /\ draw_pc = "done"
    /\ loop_count = LoopCap + 1
    /\ Cardinality(ForcedDraws) = 1
    /\ FitsNoPage(table[Len(table)])


-----------------------------------------------------------------------------
(* The text wrappers: wrap_text of DkmDailyBestDocProcessor, wrap_description
   of DkmFiscdepetProcessor and the row step of draw_professional_table that
   calls it.  A font gives every character a width; stringWidth adds them. *)

MaxText == 7     \* characters in the text handed to a wrapper

TextChars == {"a", "B", " "}

\* A word of 31 characters.
LongWord == [k \in 1..31 |-> "a"]

Texts == SeqsUpTo(TextChars, MaxText) \cup {LongWord}

MaxWidths == {2, 3, 5}

Fonts == {1, 2, 3}

CharWidth(font, c) ==
    CASE font = 1 -> 1
      [] font = 2 -> IF c \in {"B", "A"} THEN 2 ELSE 1
      [] OTHER -> IF c = " " THEN 1 ELSE 2

\* stringWidth(line, font_name, font_size)
RECURSIVE stringWidth(_, _)
stringWidth(line, font) ==
    IF line = <<>> THEN 0
    ELSE CharWidth(font, Head(line)) + stringWidth(Tail(line), font)

\* text.split(): the maximal runs of characters that are not whitespace;
\* word is the run being read.
RECURSIVE SplitFrom(_, _)
SplitFrom(s, word) ==
    LET ended == IF word = <<>> THEN <<>> ELSE <<word>>
    IN IF s = <<>> THEN ended
       ELSE IF Head(s) = " " THEN ended \o SplitFrom(Tail(s), <<>>)
       ELSE SplitFrom(Tail(s), Append(word, Head(s)))

text_split(s) == SplitFrom(s, <<>>)

\* f"{current_line} {word}".strip()
test_line(current_line, word) ==
    IF current_line = <<>> THEN word ELSE current_line \o <<" ">> \o word

\* wrap_text: the loop over the words and the final append.
RECURSIVE wrap_text_from(_, _, _, _, _)
wrap_text_from(words, out, current_line, max_width, font) ==
    IF words = <<>>
    THEN IF current_line # <<>> THEN Append(out, current_line) ELSE out
    ELSE LET word == Head(words)
             test == test_line(current_line, word)
         IN IF stringWidth(test, font) <= max_width
            THEN wrap_text_from(Tail(words), out, test, max_width, font)
            ELSE wrap_text_from(Tail(words),
                                IF current_line # <<>> THEN Append(out, current_line)
                                                       ELSE out,
                                word, max_width, font)

wrap_text(s, max_width, font) ==
    wrap_text_from(text_split(s), <<>>, <<>>, max_width, font)

\* word[:30] + "..."
Truncated(word) ==
    SubSeq(word, 1, IF Len(word) < 30 THEN Len(word) ELSE 30) \o <<".", ".", ".">>

\* wrap_description: the loop over the words and the final append.
RECURSIVE wrap_description_from(_, _, _, _, _)
wrap_description_from(words, out, current_line, max_width, font) ==
    IF words = <<>>
    THEN IF current_line # <<>> THEN Append(out, current_line) ELSE out
    ELSE LET word == Head(words)
             test == test_line(current_line, word)
         IN IF stringWidth(test, font) <= max_width
            THEN wrap_description_from(Tail(words), out, test, max_width, font)
            ELSE IF current_line # <<>>
            THEN wrap_description_from(Tail(words), Append(out, current_line),
                                       word, max_width, font)
            ELSE wrap_description_from(Tail(words), Append(out, Truncated(word)),
                                       <<>>, max_width, font)

wrap_description(s, max_width, font) ==
    wrap_description_from(text_split(s), <<>>, <<>>, max_width, font)

min_row_height == 18

max(a, b) == IF a >= b THEN a ELSE b

\* desc_lines[:3]
FirstThree(ls) == SubSeq(ls, 1, IF Len(ls) < 3 THEN Len(ls) ELSE 3)

WrapText ==
    /\ wrap_pc = "call"
    /\ wrap_call.caller = "wrap_text"
    /\ lines' = wrap_text(wrap_call.text, wrap_call.max_width, wrap_call.font)
    /\ wrap_pc' = "done"
    /\ UNCHANGED <<wrap_call, row_height>>
    /\ UNCHANGED <<ledger_vars, key_vars, plan_vars, draw_vars, debet_vars>>

WrapDescription ==
    /\ wrap_pc = "call"
    /\ wrap_call.caller = "wrap_description"
    /\ lines' = wrap_description(wrap_call.text, wrap_call.max_width, wrap_call.font)
    /\ wrap_pc' = "done"
    /\ UNCHANGED <<wrap_call, row_height>>
    /\ UNCHANGED <<ledger_vars, key_vars, plan_vars, draw_vars, debet_vars>>

\* Variant of DrawRow: the lines after the third are kept.
DrawRowAllLines ==
    /\ wrap_pc = "call"
    /\ wrap_call.caller = "draw_professional_table"
    /\ LET desc_lines == wrap_description(upper(wrap_call.text),
                                          wrap_call.max_width, wrap_call.font)
       IN /\ lines' = desc_lines
          /\ row_height' = max(min_row_height, Len(desc_lines) * 10 + 8)
    /\ wrap_pc' = "done"
    /\ UNCHANGED wrap_call
    /\ UNCHANGED <<ledger_vars, key_vars, plan_vars, draw_vars, debet_vars>>

\* draw_professional_table, one item: its description lines and row height.
DrawRow ==
    /\ wrap_pc = "call"
    /\ wrap_call.caller = "draw_professional_table"
    /\ LET desc_lines == FirstThree(wrap_description(upper(wrap_call.text),
                                       wrap_call.max_width, wrap_call.font))
       IN /\ lines' = desc_lines
          /\ row_height' = max(min_row_height, Len(desc_lines) * 10 + 8)
    /\ wrap_pc' = "done"
    /\ UNCHANGED wrap_call
    /\ UNCHANGED <<ledger_vars, key_vars, plan_vars, draw_vars, debet_vars>>

InitWrap ==
    /\ LedgerInit /\ KeyIdle /\ PlanIdle /\ DrawIdle /\ DebetIdle
    /\ wrap_call \in [caller : {"wrap_text", "wrap_description",
                                "draw_professional_table"},
                      text : Texts, max_width : MaxWidths, font : Fonts]
    /\ lines = <<>>
    /\ row_height = 0
    /\ wrap_pc = "call"

NextWrap == WrapText \/ WrapDescription \/ DrawRow

SpecWrap == InitWrap /\ [][NextWrap]_vars

\* The words of the lines, in order.
RECURSIVE WordsOf(_)
WordsOf(ls) == IF ls = <<>> THEN <<>> ELSE text_split(Head(ls)) \o WordsOf(Tail(ls))

\* ls is the greedy wrap of the words under the limit and the font.
GreedyWrap(ls, words, max_width, font) ==
    /\ WordsOf(ls) = words
    /\ \A i \in 1..Len(ls) :
          Len(text_split(ls[i])) > 1 => stringWidth(ls[i], font) <= max_width
    /\ \A i \in 2..Len(ls) :
          stringWidth(ls[i - 1] \o <<" ">> \o text_split(ls[i])[1], font) > max_width
    /\ \A k \in 1..Len(words) :
          stringWidth(words[k], font) > max_width
              => \E i \in 1..Len(ls) : ls[i] = words[k]

\* C22: wrap_text and wrap_description return the greedy wrap of the text:
\* the lines hold the words of the text unchanged and in order, a line of
\* several words is within the limit, the first word of a following line
\* would not have fitted on the line before, and a word wider than the limit
\* is alone and unmodified on a line.
C22_WrapperReturnsGreedyWrap ==
    (wrap_pc = "done" /\ wrap_call.caller \in {"wrap_text", "wrap_description"})
        => GreedyWrap(lines, text_split(wrap_call.text),
                      wrap_call.max_width, wrap_call.font)


\* C25 as stated: every row drawn by draw_professional_table has between 1
\* and 3 description lines, the first lines of the wrapped description, and
\* its height is max(18, lines * 10 + 8).
C25_OneToThreeLinesAndHeight ==
    (wrap_pc = "done" /\ wrap_call.caller = "draw_professional_table")
        => /\ Len(lines) \in 1..3
           /\ lines = FirstThree(wrap_description(upper(wrap_call.text),
                                     wrap_call.max_width, wrap_call.font))
           /\ row_height = max(18, Len(lines) * 10 + 8)

\* C25 amended: every row drawn by draw_professional_table has at most 3
\* description lines, none exactly when the description holds no word; they
\* are the first lines of the wrapped description and the row height is
\* max(18, lines * 10 + 8).
C25_UpToThreeLinesAndHeight ==
    (wrap_pc = "done" /\ wrap_call.caller = "draw_professional_table")
        => /\ Len(lines) \in 0..3
           /\ Len(lines) = 0 <=> text_split(wrap_call.text) = <<>>
           /\ lines = FirstThree(wrap_description(upper(wrap_call.text),
                                     wrap_call.max_width, wrap_call.font))
           /\ row_height = max(18, Len(lines) * 10 + 8)

\* C25 witness: a description that wraps to four lines has been drawn with
\* three lines in a row of height 38.
C25_Witness ==
    /\ wrap_pc = "done"
    /\ wrap_call.caller = "draw_professional_table"
    /\ Len(wrap_description(upper(wrap_call.text),
                            wrap_call.max_width, wrap_call.font)) = 4
    /\ Len(lines) = 3
    /\ row_height = 38


\* C23: a page that draw_table has left, or the last page when draw_table
\* has returned, has something drawn on it (the first page carries the
\* head of the document): a fresh page is started only from a page with
\* content.
C23_NoBlankPage ==
    \A p \in 2..Len(canvas) :
        (p < Len(canvas) \/ draw_pc = "done") => canvas[p] # <<>>

\* The draws that reach below the bottom margin of their page.
Overflows ==
    UNION { { <<p, d>> : d \in { k \in 1..Len(canvas[p]) :
                                    canvas[p][k].at < bottom_margin } } :
            p \in 1..Len(canvas) }

\* C24 as stated: something is drawn beyond the page body only if some
\* planned row fits on no page.
C24_OverflowOnlyForOversizedRow ==
    Overflows # {} => \E k \in 1..Len(table_data) : FitsNoPage(table_data[k])

\* C24 amended: something is drawn beyond the page body only if some
\* planned row fits on no page or the loop has run more than LoopCap times.
C24_OverflowOnlyForOversizedRowOrCap ==
    Overflows # {} =>
        \/ \E k \in 1..Len(table_data) : FitsNoPage(table_data[k])
        \/ loop_count > LoopCap

\* C24 witness: a table of rows that each fit on a page has been laid out
\* over more than three pages, within the page body.
C24_Witness ==
    /\ draw_pc = "done"
    /\ Len(canvas) > 3
    /\ \A k \in 1..Len(table_data) : ~FitsNoPage(table_data[k])
    /\ Overflows = {}
    /\ \A k \in 1..Len(table_data) : Draws(k) # {}


-----------------------------------------------------------------------------
(* update_state of DkmFiscdepetProcessor (services/state_manager.py) on the
   blob fiscdebet_state.json.  now_iso is the number of the call. *)

MaxDebetId == 3   \* the ids passed to update_state are 1..MaxDebetId
MaxUpdates == 3   \* calls of update_state

DebetIds == 1..MaxDebetId

\* get_state() when the blob cannot be read; lastRun and recordsProcessed
\* are absent (0).
DefaultState ==
    [lastProcessedId |-> 0, pendingIds |-> <<>>, pendingCreated |-> <<>>,
     lastRun |-> 0, recordsProcessed |-> 0]

\* get_state() of services/state_manager.py of DkmFiscdepetProcessor.
debet_get_state(blob) == IF blob = <<>> THEN DefaultState ELSE blob[1]

DigitChar(d) == <<"0", "1", "2", "3", "4", "5", "6", "7", "8", "9">>[d + 1]

\* str(n) of an int that is not negative.
RECURSIVE str(_)
str(n) == IF n < 10 THEN <<DigitChar(n)>> ELSE Append(str(n \div 10), DigitChar(n % 10))

\* sorted(list(ids))
RECURSIVE sorted(_)
sorted(ids) ==
    IF ids = {} THEN <<>>
    ELSE LET least == CHOOSE x \in ids : \A z \in ids : x <= z
         IN <<least>> \o sorted(ids \ {least})

\* Variant of update_state: lastProcessedId is set to new_max_id.
update_state_last_is_new_max(blob, processed_ids, new_max_id, now_iso) ==
    LET st == debet_get_state(blob)
        old_last == st.lastProcessedId
        missing_between == (old_last + 1)..new_max_id \ processed_ids
        new_pending == (Range(st.pendingIds) \cup missing_between) \ processed_ids
        keys == (DOMAIN st.pendingCreated \cup { str(mid) : mid \in missing_between })
                    \ { str(pid) : pid \in processed_ids }
    IN [lastProcessedId |-> new_max_id,
        pendingIds |-> sorted(new_pending),
        pendingCreated |->
            [k \in keys |-> IF k \in { str(mid) : mid \in missing_between }
                            THEN now_iso ELSE st.pendingCreated[k]],
        lastRun |-> now_iso,
        recordsProcessed |-> Cardinality(processed_ids)]

\* Variant of update_state: the timestamps of the processed ids are kept.
update_state_keeps_created(blob, processed_ids, new_max_id, now_iso) ==
    LET st == debet_get_state(blob)
        old_last == st.lastProcessedId
        missing_between == (old_last + 1)..new_max_id \ processed_ids
        new_pending == (Range(st.pendingIds) \cup missing_between) \ processed_ids
        keys == DOMAIN st.pendingCreated \cup { str(mid) : mid \in missing_between }
    IN [lastProcessedId |-> max(old_last, new_max_id),
        pendingIds |-> sorted(new_pending),
        pendingCreated |->
            [k \in keys |-> IF k \in { str(mid) : mid \in missing_between }
                            THEN now_iso ELSE st.pendingCreated[k]],
        lastRun |-> now_iso,
        recordsProcessed |-> Cardinality(processed_ids)]

\* The document update_state saves; processed_ids is set(processed_ids or []).
update_state(blob, processed_ids, new_max_id, now_iso) ==
    LET st == debet_get_state(blob)
        old_last == st.lastProcessedId
        missing_between == (old_last + 1)..new_max_id \ processed_ids
        new_pending == (Range(st.pendingIds) \cup missing_between) \ processed_ids
        keys == (DOMAIN st.pendingCreated \cup { str(mid) : mid \in missing_between })
                    \ { str(pid) : pid \in processed_ids }
    IN [lastProcessedId |-> max(old_last, new_max_id),
        pendingIds |-> sorted(new_pending),
        pendingCreated |->
            [k \in keys |-> IF k \in { str(mid) : mid \in missing_between }
                            THEN now_iso ELSE st.pendingCreated[k]],
        lastRun |-> now_iso,
        recordsProcessed |-> Cardinality(processed_ids)]

\* One call update_state(processed_ids, new_max_id), the upload included.
UpdateState(processed_ids, new_max_id) ==
    /\ update_calls < MaxUpdates
    /\ debet_blob' = <<update_state(debet_blob, processed_ids, new_max_id,
                                    update_calls + 1)>>
    /\ processed_ever' = processed_ever \cup processed_ids
    /\ processed_below_max' =
          processed_below_max \cup { i \in processed_ids : i <= new_max_id }
    /\ latest_processed' = processed_ids
    /\ update_calls' = update_calls + 1
    /\ UNCHANGED <<ledger_vars, key_vars, plan_vars, draw_vars, wrap_vars>>

InitDebet ==
    /\ LedgerInit /\ KeyIdle /\ PlanIdle /\ DrawIdle /\ WrapIdle
    /\ DebetIdle

NextDebet ==
    \E processed_ids \in SUBSET DebetIds, new_max_id \in 0..MaxDebetId :
        UpdateState(processed_ids, new_max_id)

SpecDebet == InitDebet /\ [][NextDebet]_vars

\* The stored document, and the ids it lists as pending.
DebetState == debet_get_state(debet_blob)

PendingIds == Range(DebetState.pendingIds)

C28_StatisticsMatchRecords ==
    LET Marked(r) == r.bestdoc
    IN /\ store.statistics.total_records = Len(store.records)
       /\ store.statistics.pending_bestdocs = CountPending(store.records)
       /\ store.statistics.generated_bestdocs = Len(SelectSeq(store.records, Marked))


-----------------------------------------------------------------------------
(* update_bestdoc_state of DkmFiscdepetProcessor
   (services/bestdoc_state_manager.py) writes the same blob
   Bestdoc_state.json between the cycles of the handler. *)

\* metadata["datum"] written with slashes.
DatumSlashed == <<"2", "0", "2", "5", "/", "1", "1", "/", "0", "3">>

\* metadata.get("datum", "").replace("/", "")
remove_slashes(datum) ==
    LET Kept(c) == c # "/"
    IN SelectSeq(datum, Kept)

\* update_bestdoc_state on the ledger st: the record is appended unless its
\* id has a record already; only total_records is updated.
update_bestdoc_state(st, pdf_response, now_iso) ==
    LET new_record ==
            [internfactuurnummer |-> pdf_response.internfactuurnummer,
             klant |-> pdf_response.metadata.klant,
             datum |-> remove_slashes(pdf_response.metadata.datum),
             added_at |-> now_iso,
             bestdoc |-> FALSE,
             bestdoc_generated_at |-> NoTime,
             bestdoc_filename |-> NoFile]
        records == Append(st.records, new_record)
    IN IF pdf_response.internfactuurnummer \in RecordIds(st.records)
       THEN [save |-> FALSE, state |-> st]
       ELSE [save |-> TRUE,
             state |-> [st EXCEPT !.records = records,
                                  !.statistics.total_records = Len(records)]]

\* One call of update_bestdoc_state, the upload included, while no cycle
\* of the handler is running.
UpdateBestdocState(pdf_response) ==
    /\ \A p \in Procs : pc[p] = "idle"
    /\ LET r == update_bestdoc_state(store, pdf_response, clock)
       IN /\ r.save
          /\ store' = r.state
    /\ clock' = clock + 1
    /\ UNCHANGED <<pc, incoming_data, unprocessed_data, state, pending_groups,
                   generated_files, processed_groups_dict, saved, start_state,
                   docs, received>>
    /\ UNCHANGED pure_vars

PdfResponses ==
    { [internfactuurnummer |-> i, metadata |-> [klant |-> KlantAb, datum |-> d]] :
        i \in 1..MaxId, d \in {DatumNov, DatumSlashed} }

\* Non-overlapping handler cycles and calls of update_bestdoc_state on the
\* shared blob; every store access succeeds.
NextShared ==
    \/ Receive(1, NovemberRows, MaxRaceRows)
    \/ FilterStep(1, TRUE)
    \/ IngestRead(1, TRUE)
    \/ IngestSave(1)
    \/ PendingStep(1, TRUE)
    \/ RenderStep(1)
    \/ MarkRead(1, TRUE)
    \/ MarkSave(1)
    \/ \E pdf_response \in PdfResponses : UpdateBestdocState(pdf_response)

SpecShared == Init /\ [][NextShared]_vars

\* The ids of the members returned by get_unprocessed_pending_groups.
ReturnedIds(st) ==
    UNION { ObjIds(get_unprocessed_pending_groups(st)[g].objs) :
            g \in 1..Len(get_unprocessed_pending_groups(st)) }

\* C29: in the stored ledger every record id is a member of exactly one
\* group, every member id has a record, and every unprocessed record is
\* returned by get_unprocessed_pending_groups.
C29_EveryRecordInOneGroup ==
    /\ \A id \in RecordIds(store.records) : Cardinality(Memberships(store, id)) = 1
    /\ \A g \in 1..Len(store.pending_by_client_month) :
          ObjIds(store.pending_by_client_month[g].objs) \subseteq RecordIds(store.records)
    /\ \A i \in 1..Len(store.records) :
          ~store.records[i].bestdoc
              => store.records[i].internfactuurnummer \in ReturnedIds(store)


-----------------------------------------------------------------------------
(* Cycles on requests that hold two records of one client in each of two
   months, every id in one month only. *)

MaxNameRows == 4   \* Table1 rows received over all requests

DatumDec == <<"2", "0", "2", "5", "1", "2", "1", "0">>

TwoMonthRows ==
    { Row(1, KlantAb, DatumNov, <<"e", "n">>), Row(2, KlantAb, DatumNov, <<"e", "n">>),
      Row(3, KlantAb, DatumDec, <<"e", "n">>), Row(4, KlantAb, DatumDec, <<"e", "n">>) }

NextNames ==
    \/ Receive(1, TwoMonthRows, MaxNameRows)
    \/ FilterStep(1, TRUE)
    \/ IngestRead(1, TRUE)
    \/ IngestSave(1)
    \/ PendingStep(1, TRUE)
    \/ RenderStep(1)
    \/ MarkRead(1, TRUE)
    \/ MarkSave(1)

SpecNames == Init /\ [][NextNames]_vars

\* C30: the files generated in one cycle for two different groups have
\* different filenames.
C30_GroupsGetDistinctFilenames ==
    \A p \in Procs :
        \A a, b \in 1..Len(generated_files[p]) :
            generated_files[p][a].client_month_key # generated_files[p][b].client_month_key
                => generated_files[p][a].filename # generated_files[p][b].filename

====
